---------------------------- MODULE Spec2Model ----------------------------
(***************************************************************************)
(* A model of fms-fsdp's muP coordinate search:                            *)
(*   - train()  (src/fms_fsdp/utils/train_utils.py): the per-trial         *)
(*     training loop run by every worker process, with its all_reduce at   *)
(*     each reporting boundary and its divergence guard;                   *)
(*   - main()   (src/main_training.py): the baseline trial and the         *)
(*     coordinate search over the six muP exponents;                       *)
(*   - run()    (src/main_training.py): the call from main() to train().   *)
(*                                                                         *)
(* Three specifications share the variables:                               *)
(*   SpecTrain   WorldSize workers executing train() on one configuration; *)
(*   SpecSearch  the search of main(), the loss each trial hands back      *)
(*               being an input;                                           *)
(*   SpecMain    every process executing main() up to and including the    *)
(*               call run() makes to train().                              *)
(***************************************************************************)
EXTENDS Integers, Naturals, Sequences, FiniteSets, TLC

(***************************************************************************)
(* Bounds of the model.                                                    *)
(***************************************************************************)
\* number of worker processes (WORLD_SIZE)
WorldSize == 2
\* largest number of optimizer steps a modelled trial can take
MaxRun == 3
\* largest cfg.report_interval
MaxInterval == 2
\* largest cfg.mup_search_steps
MaxRounds == 2
\* largest number of trials of one search that improve on best_loss
MaxAdopt == 2

(***************************************************************************)
(* Program constants.                                                      *)
(***************************************************************************)
\* train_utils.py:96  "batch_idx > 999"
WarmupSteps == 999
\* train_utils.py:96  "train_loss > 6"
LossThreshold == 6
\* train_utils.py:115 "else 100"
Sentinel == 100
\* train_utils.py:41  "train_loss = -1"
Placeholder == 0 - 1

Workers == 0 .. (WorldSize - 1)

(***************************************************************************)
(* Floating-point scalars: a rational n/d (d > 0) or not-a-number.         *)
(***************************************************************************)
Num(n, d) == [nan |-> FALSE, n |-> n, d |-> d]
NaN == [nan |-> TRUE, n |-> 0, d |-> 1]

\* a + b; not-a-number absorbs
Add(a, b) ==
    IF a.nan \/ b.nan THEN NaN
    ELSE Num(a.n * b.d + b.n * a.d, a.d * b.d)

\* a / b for b >= 0; 0/0 is not-a-number
Div(a, b) ==
    IF a.nan \/ b.nan \/ b.n = 0 THEN NaN
    ELSE Num(a.n * b.d, a.d * b.n)

\* a > k; every comparison with not-a-number is false
Gt(a, k) == ~a.nan /\ a.n > k * a.d

\* a < b; every comparison with not-a-number is false
Lt(a, b) == ~a.nan /\ ~b.nan /\ a.n * b.d < b.n * a.d

\* numeric equality
Eq(a, b) == ~a.nan /\ ~b.nan /\ a.n * b.d = b.n * a.d

(***************************************************************************)
(* Python objects that train() handles: a plain int, a plain float or a    *)
(* 0-dim tensor.                                                           *)
(***************************************************************************)
PyInt(k) == [ty |-> "int", val |-> Num(k, 1)]
PyFloat(v) == [ty |-> "float", val |-> v]
Tensor(v) == [ty |-> "tensor", val |-> v]

\* torch.zeros(3)
Zeros == <<Num(0, 1), Num(0, 1), Num(0, 1)>>

\* what one optimizer step adds to ddp_stats: loss.item(), the gradient
\* norm clip_grad_norm_ reports
StepOutcomes ==
    { [loss |-> Num(1, 1), gnorm |-> Num(1, 1)],
      [loss |-> Num(8, 1), gnorm |-> Num(2, 1)],
      [loss |-> NaN, gnorm |-> NaN] }

\* checkpointer.load's start_step
StartSteps == {0, WarmupSteps - 2}

\* cfg.num_steps
NumSteps == { s + k : s \in StartSteps, k \in 0 .. MaxRun }

\* number of batches a worker's train_loader yields
LoaderLens == {0, 2, MaxRun + 1}

\* the six muP fields, in the order main() declares them
mup_params ==
    <<"mup_emb_scale", "mup_head_scale", "mup_ffn_init", "mup_attn_init",
      "mup_attn_temp", "mup_lr_dscale">>

Params == 1 .. Len(mup_params)

\* 2^n
RECURSIVE Pow2(_)
Pow2(n) == IF n = 0 THEN 1 ELSE 2 * Pow2(n - 1)

\* the exponents of the search are dyadic rationals; the model holds them
\* as integers in units of 2^-MaxRounds
Unit == Pow2(MaxRounds)

\* a muP value base * 2^(exp / Unit), held as <<base, exp>>; the bases used
\* are distinct odd numbers, so two such values are equal exactly when base
\* and exp are
Scaled(base, exp) == <<base, exp>>

\* the base configuration's values of the six muP fields
BaseMups ==
    <<Scaled(3, 0), Scaled(5, 0), Scaled(7, 0), Scaled(11, 0),
      Scaled(13, 0), Scaled(17, 0)>>

\* cfg.mup_explore_range
ExploreRanges == {1, 4}

\* the losses a trial can hand back: a finite mean loss or the sentinel
TrialLosses ==
    {Num(1, 1), Num(2, 1), Num(Sentinel, 1), Num(150, 1)}

\* the configurations main() can start from
MainCfgs ==
    [num_steps : {0}, report_interval : {1},
     mup_search_steps : 0 .. MaxRounds,
     mup_explore_range : ExploreRanges,
     mup : {BaseMups}]

\* the configurations a trial can be given
TrialCfgs ==
    [num_steps : NumSteps, report_interval : 1 .. MaxInterval,
     mup_search_steps : {0}, mup_explore_range : {1}, mup : {BaseMups}]

VARIABLES
    cfg,            \* the configuration (main()'s cfg, train()'s cfg)
    start_step,     \* train()'s start_step
    train_loader,   \* per worker: batches its data iterator still yields
    pc,             \* per worker: position in train()
    bound,          \* per worker: the local names train() has bound
    batch_idx,      \* per worker: step index (meaningful once bound)
    ddp_stats,      \* per worker: <<loss sum, gradient norm sum, step count>>
    train_loss,     \* per worker: train_loss
    ret,            \* per worker: the value train() returned
    err,            \* per worker: the exception train() raised, or "none"
    exit_cause,     \* per worker: why the loop was left
    n_steps,        \* per worker: optimizer steps executed
    n_all_reduce,   \* per worker: all_reduce calls issued
    spc,            \* main(): position in the search
    mup_scale_vals, \* main(): the exponent vector held as best
    best_loss,      \* main(): best_loss
    new_cfg,        \* main(): the configuration of the last trial
    new_loss,       \* main(): the loss of the last trial
    start_val,      \* main(): start_val
    candidate,      \* main(): the exponent vector of the last trial
    i,              \* main(): round
    j,              \* main(): parameter index (1-based)
    sign,           \* main(): direction of the next probe
    held_loss,      \* the loss measured by the trial of mup_scale_vals
    round_loss,     \* held_loss at the end of the last round (or baseline)
    n_trials,       \* trials launched
    n_adopted,      \* trials adopted
    main_pc,        \* per process: position in main() and run()
    main_new_cfg,   \* per process: main()'s new_cfg
    main_start_step,\* per process: run()'s start_step
    main_err        \* per process: the exception that ended main(), or "none"

trainVarsButCfg ==
    <<start_step, train_loader, pc, bound, batch_idx, ddp_stats,
      train_loss, ret, err, exit_cause, n_steps, n_all_reduce>>

trainVars == <<cfg, trainVarsButCfg>>

searchVars ==
    <<spc, mup_scale_vals, best_loss, new_cfg, new_loss, start_val, candidate,
      i, j, sign, held_loss, round_loss, n_trials, n_adopted>>

mainVars == <<main_pc, main_new_cfg, main_start_step, main_err>>

vars == <<trainVars, searchVars, mainVars>>

\* no process in main(), for the specifications that do not run it
MainIdle ==
    /\ main_pc = [p \in Workers |-> "idle"]
    /\ main_new_cfg = [p \in Workers |-> cfg]
    /\ main_start_step = [p \in Workers |-> 0]
    /\ main_err = [p \in Workers |-> "none"]

\* the search at rest, for the specifications that do not run it
SearchIdle ==
    /\ spc = "idle"
    /\ mup_scale_vals = [k \in Params |-> 0]
    /\ best_loss = Num(0, 1)
    /\ new_cfg = cfg
    /\ new_loss = Num(0, 1)
    /\ start_val = 0
    /\ candidate = [k \in Params |-> 0]
    /\ i = 0
    /\ j = 1
    /\ sign = 0 - 1
    /\ held_loss = Num(0, 1)
    /\ round_loss = Num(0, 1)
    /\ n_trials = 0
    /\ n_adopted = 0

\* no trial running, for the specifications that do not run train()
TrainIdle ==
    /\ start_step = 0
    /\ train_loader = [w \in Workers |-> 0]
    /\ pc = [w \in Workers |-> "idle"]
    /\ bound = [w \in Workers |-> {}]
    /\ batch_idx = [w \in Workers |-> 0]
    /\ ddp_stats = [w \in Workers |-> Zeros]
    /\ train_loss = [w \in Workers |-> PyInt(Placeholder)]
    /\ ret = [w \in Workers |-> PyInt(Placeholder)]
    /\ err = [w \in Workers |-> "none"]
    /\ exit_cause = [w \in Workers |-> "none"]
    /\ n_steps = [w \in Workers |-> 0]
    /\ n_all_reduce = [w \in Workers |-> 0]

(***************************************************************************)
(* train()                                                                 *)
(***************************************************************************)
TrainInit ==
    /\ cfg \in TrialCfgs
    /\ start_step \in StartSteps
    /\ train_loader \in [Workers -> LoaderLens]
    /\ pc = [w \in Workers |-> "loop"]
    /\ bound = [w \in Workers |-> {}]
    /\ batch_idx = [w \in Workers |-> 0]
    /\ ddp_stats = [w \in Workers |-> Zeros]
    /\ train_loss = [w \in Workers |-> PyInt(Placeholder)]
    /\ ret = [w \in Workers |-> PyInt(Placeholder)]
    /\ err = [w \in Workers |-> "none"]
    /\ exit_cause = [w \in Workers |-> "none"]
    /\ n_steps = [w \in Workers |-> 0]
    /\ n_all_reduce = [w \in Workers |-> 0]
    /\ SearchIdle
    /\ MainIdle

\* enumerate started at start_step instead of start_step + 1
NextIdxFromStart(w) ==
    IF "batch_idx" \in bound[w] THEN batch_idx[w] + 1 ELSE start_step

\* the index enumerate(train_loader, start=start_step + 1) hands out next
NextIdx(w) ==
    IF "batch_idx" \in bound[w] THEN batch_idx[w] + 1 ELSE start_step + 1

\* the for statement finds the data iterator exhausted
LoopExhausted(w) ==
    /\ pc[w] = "loop"
    /\ train_loader[w] = 0
    /\ pc' = [pc EXCEPT ![w] = "after_loop"]
    /\ exit_cause' = [exit_cause EXCEPT ![w] = "exhausted"]
    /\ UNCHANGED <<cfg, start_step, train_loader, bound, batch_idx,
                   ddp_stats, train_loss, ret, err, n_steps, n_all_reduce, searchVars, mainVars>>

\* the for statement takes a batch and "batch_idx > cfg.num_steps" breaks
LoopBudget(w) ==
    /\ pc[w] = "loop"
    /\ train_loader[w] > 0
    /\ NextIdx(w) > cfg.num_steps
    /\ train_loader' = [train_loader EXCEPT ![w] = @ - 1]
    /\ batch_idx' = [batch_idx EXCEPT ![w] = NextIdx(w)]
    /\ bound' = [bound EXCEPT ![w] = @ \cup {"batch_idx"}]
    /\ pc' = [pc EXCEPT ![w] = "after_loop"]
    /\ exit_cause' = [exit_cause EXCEPT ![w] = "budget"]
    /\ UNCHANGED <<cfg, start_step, ddp_stats, train_loss, ret, err,
                   n_steps, n_all_reduce, searchVars, mainVars>>

\* ddp_stats[0] += loss; ddp_stats[1] += gnorm; ddp_stats[2] += 1
Accumulate(stats, o) ==
    <<Add(stats[1], o.loss), Add(stats[2], o.gnorm), Add(stats[3], Num(1, 1))>>

\* mutant: boundaries counted from the resumed step
AtBoundaryFromStart(idx) == (idx - start_step) % cfg.report_interval = 0

\* a reduction also at the last step of the budget
AtBoundaryOrLast(idx) ==
    idx % cfg.report_interval = 0 \/ idx = cfg.num_steps

\* batch_idx % cfg.report_interval == 0
AtBoundary(idx) == idx % cfg.report_interval = 0

\* one iteration of the loop body up to the reporting test: forward,
\* backward, optimizer and scheduler step, accumulation; at a reporting
\* boundary the worker calls dist.all_reduce and blocks in it
OptimizerStep(w) ==
    /\ pc[w] = "loop"
    /\ train_loader[w] > 0
    /\ NextIdx(w) <= cfg.num_steps
    /\ \E o \in StepOutcomes :
           ddp_stats' = [ddp_stats EXCEPT ![w] = Accumulate(@, o)]
    /\ train_loader' = [train_loader EXCEPT ![w] = @ - 1]
    /\ batch_idx' = [batch_idx EXCEPT ![w] = NextIdx(w)]
    /\ bound' = [bound EXCEPT ![w] = @ \cup {"batch_idx"}]
    /\ n_steps' = [n_steps EXCEPT ![w] = @ + 1]
    /\ IF AtBoundary(NextIdx(w))
       THEN /\ pc' = [pc EXCEPT ![w] = "all_reduce"]
            /\ n_all_reduce' = [n_all_reduce EXCEPT ![w] = @ + 1]
       ELSE /\ pc' = pc
            /\ n_all_reduce' = n_all_reduce
    /\ UNCHANGED <<cfg, start_step, train_loss, ret, err, exit_cause, searchVars, mainVars>>

\* mutant: rank 0's tensor handed to everyone instead of the sum
SumOverBroadcast(stats, ws, k) == stats[0][k]

RECURSIVE SumOver(_, _, _)
\* the element-wise sum of the workers' tensors
SumOver(stats, ws, k) ==
    IF ws = {} THEN Num(0, 1)
    ELSE LET w == CHOOSE x \in ws : TRUE
         IN  Add(stats[w][k], SumOver(stats, ws \ {w}, k))

\* mutant: no reduction, every worker keeps its local statistics
ReduceSumLocal(stats) == stats

\* dist.all_reduce(ddp_stats, op=SUM): on return every worker holds the sum
ReduceSum(stats) ==
    [w \in Workers |->
        <<SumOver(stats, Workers, 1), SumOver(stats, Workers, 2),
          SumOver(stats, Workers, 3)>>]

\* the collective completes once every worker of the group has called it
AllReduce ==
    /\ \A w \in Workers : pc[w] = "all_reduce"
    /\ ddp_stats' = ReduceSum(ddp_stats)
    /\ pc' = [w \in Workers |-> "report"]
    /\ UNCHANGED <<cfg, start_step, train_loader, bound, batch_idx,
                   train_loss, ret, err, exit_cause, n_steps, n_all_reduce, searchVars, mainVars>>

\* train_loss = ddp_stats[0] / ddp_stats[2]
MeanLoss(stats) == Div(stats[1], stats[3])

\* mutant: the guard already active at step 999
DivergedFrom999(idx, tl) ==
    idx >= WarmupSteps /\ (tl.nan \/ Gt(tl, LossThreshold))

\* batch_idx > 999 and (torch.isnan(train_loss) or train_loss > 6)
Diverged(idx, tl) ==
    idx > WarmupSteps /\ (tl.nan \/ Gt(tl, LossThreshold))

\* the reporting block without ddp_stats.zero_()
zero_kept(stats) == stats

\* ddp_stats.zero_(): every element is set to 0
zero_(stats) == [k \in DOMAIN stats |-> Num(0, 1)]

\* the reporting block after all_reduce: the means, the report values,
\* ddp_stats.zero_() and the divergence guard
Report(w) ==
    /\ pc[w] = "report"
    /\ train_loss' = [train_loss EXCEPT ![w] = Tensor(MeanLoss(ddp_stats[w]))]
    /\ bound' = [bound EXCEPT ![w] = @ \cup {"current_loss"}]
    /\ ddp_stats' = [ddp_stats EXCEPT ![w] = zero_(@)]
    /\ IF Diverged(batch_idx[w], MeanLoss(ddp_stats[w]))
       THEN /\ pc' = [pc EXCEPT ![w] = "after_loop"]
            /\ exit_cause' = [exit_cause EXCEPT ![w] = "guard"]
       ELSE /\ pc' = [pc EXCEPT ![w] = "loop"]
            /\ exit_cause' = exit_cause
    /\ UNCHANGED <<cfg, start_step, train_loader, batch_idx, ret, err,
                   n_steps, n_all_reduce, searchVars, mainVars>>

\* rank 0's final print reads batch_idx and current_loss, bound only by
\* the loop and by its reporting block
PrintRaises(w) ==
    w = 0 /\ ~({"batch_idx", "current_loss"} \subseteq bound[w])

\* torch.isnan accepts a tensor only
IsNanRaises(tl) == tl.ty # "tensor"

\* mutant: train_loss.item() returned without the not-a-number test
ReturnValueUnchecked(tl) == PyFloat(tl.val)

\* train_loss.item() if not torch.isnan(train_loss) else 100
ReturnValue(tl) ==
    IF ~tl.val.nan THEN PyFloat(tl.val) ELSE PyInt(Sentinel)

\* the statements after the loop: rank 0's print, then the return
TrainReturn(w) ==
    /\ pc[w] = "after_loop"
    /\ IF PrintRaises(w)
       THEN /\ pc' = [pc EXCEPT ![w] = "raised"]
            /\ err' = [err EXCEPT ![w] = "UnboundLocalError"]
            /\ ret' = ret
       ELSE IF IsNanRaises(train_loss[w])
       THEN /\ pc' = [pc EXCEPT ![w] = "raised"]
            /\ err' = [err EXCEPT ![w] = "TypeError"]
            /\ ret' = ret
       ELSE /\ pc' = [pc EXCEPT ![w] = "returned"]
            /\ err' = err
            /\ ret' = [ret EXCEPT ![w] = ReturnValue(train_loss[w])]
    /\ UNCHANGED <<cfg, start_step, train_loader, bound, batch_idx,
                   ddp_stats, train_loss, exit_cause, n_steps, n_all_reduce,
                   searchVars, mainVars>>

TrainNext ==
    \/ \E w \in Workers : LoopExhausted(w)
    \/ \E w \in Workers : LoopBudget(w)
    \/ \E w \in Workers : OptimizerStep(w)
    \/ AllReduce
    \/ \E w \in Workers : Report(w)
    \/ \E w \in Workers : TrainReturn(w)

SpecTrain == TrainInit /\ [][TrainNext]_vars

(***************************************************************************)
(* main(): the baseline trial and the coordinate search                    *)
(***************************************************************************)
SearchInit ==
    /\ cfg \in MainCfgs
    /\ TrainIdle
    /\ MainIdle
    /\ spc = "baseline"
    /\ mup_scale_vals = [k \in Params |-> 0]
    /\ best_loss = Num(0, 1)
    /\ new_cfg = cfg
    /\ new_loss = Num(0, 1)
    /\ start_val = 0
    /\ candidate = [k \in Params |-> 0]
    /\ i = 0
    /\ j = 1
    /\ sign = 0 - 1
    /\ held_loss = Num(0, 1)
    /\ round_loss = Num(0, 1)
    /\ n_trials = 0
    /\ n_adopted = 0

\* set_mups reading the fields it scales from the last derived configuration
set_mups_compounding(mup_v, c) ==
    [c EXCEPT !.mup =
        [k \in Params |->
            Scaled(new_cfg.mup[k][1],
                   new_cfg.mup[k][2] + mup_v[k] * c.mup_explore_range)]]

\* set_mups scaling by 2**(v + explore_ratio)
set_mups_added(mup_v, c) ==
    [c EXCEPT !.mup =
        [k \in Params |->
            Scaled(c.mup[k][1],
                   c.mup[k][2] + mup_v[k] + c.mup_explore_range * Unit)]]

\* set_mups: a copy of c whose field k is c's field k * 2**(v_k * explore_ratio)
set_mups(mup_v, c) ==
    [c EXCEPT !.mup =
        [k \in Params |->
            Scaled(c.mup[k][1],
                   c.mup[k][2] + mup_v[k] * c.mup_explore_range)]]

\* a step of 2**(-r) in round r
StepSizeCoarse(r) == Unit \div Pow2(r)

\* 2**(-r-1), in units of 2^-MaxRounds
StepSize(r) == Unit \div Pow2(r + 1)

\* new_loss < best_loss
Improves(loss, best) == Lt(loss, best)

\* the baseline: set_mups on the zero vector, run(), best_loss
Baseline ==
    /\ spc = "baseline"
    /\ new_cfg' = set_mups(mup_scale_vals, cfg)
    /\ \E loss \in TrialLosses :
           /\ best_loss' = loss
           /\ held_loss' = loss
           /\ round_loss' = loss
    /\ n_trials' = n_trials + 1
    /\ spc' = IF cfg.mup_search_steps > 0 THEN "probe" ELSE "final"
    /\ UNCHANGED <<cfg, trainVarsButCfg, mainVars, mup_scale_vals, new_loss,
                   start_val, candidate, i, j, sign, n_adopted>>

\* start_val read again inside the sign loop, after the negative probe
StartValReread == mup_scale_vals[j]

\* start_val = mup_scale_vals[j], read when the probing of parameter j begins
\* (before the negative probe) and kept for the positive probe
StartVal == IF sign < 0 THEN mup_scale_vals[j] ELSE start_val

\* candidate = deepcopy(mup_scale_vals); candidate[j] = sv + sign * 2**(-i-1)
Candidate(sv) == [mup_scale_vals EXCEPT ![j] = sv + sign * StepSize(i)]

\* one pass of "for sign in [-1,1]": the candidate, its configuration, its
\* trial, the comparison and the adoption, then on to the next probe
Probe ==
    /\ spc = "probe"
    /\ LET cand == Candidate(StartVal)
           last == sign > 0 /\ j = Len(mup_params)
       IN  /\ start_val' = StartVal
           /\ candidate' = cand
           /\ new_cfg' = set_mups(cand, cfg)
           /\ \E loss \in TrialLosses :
                  /\ Improves(loss, best_loss) => n_adopted < MaxAdopt
                  /\ new_loss' = loss
                  /\ IF Improves(loss, best_loss)
                     THEN /\ mup_scale_vals' = cand
                          /\ held_loss' = loss
                          /\ n_adopted' = n_adopted + 1
                     ELSE /\ mup_scale_vals' = mup_scale_vals
                          /\ held_loss' = held_loss
                          /\ n_adopted' = n_adopted
           /\ round_loss' = IF last THEN held_loss' ELSE round_loss
           /\ n_trials' = n_trials + 1
           /\ sign' = 0 - sign
           /\ j' = IF sign < 0 THEN j ELSE IF last THEN 1 ELSE j + 1
           /\ i' = IF last THEN i + 1 ELSE i
           /\ spc' = IF last /\ i + 1 = cfg.mup_search_steps
                     THEN "final" ELSE "probe"
    /\ UNCHANGED <<cfg, trainVarsButCfg, mainVars, best_loss>>

\* the final report, dist.barrier() and dist.destroy_process_group()
Final ==
    /\ spc = "final"
    /\ spc' = "done"
    /\ UNCHANGED <<cfg, trainVarsButCfg, mainVars, mup_scale_vals, best_loss,
                   new_cfg, new_loss, start_val, candidate, i, j, sign, held_loss,
                   round_loss, n_trials, n_adopted>>

SearchNext == Baseline \/ Probe \/ Final

SpecSearch == SearchInit /\ [][SearchNext]_vars

(***************************************************************************)
(* main() and run() in every process, up to the call of train()            *)
(***************************************************************************)
\* the parameters train() declares
TrainParams ==
    <<"cfg", "model", "local_rank", "rank", "train_loader", "optimizer",
      "scheduler", "start_step", "tokens_seen">>

\* the positional arguments run() passes to train()
RunTrainArgs ==
    <<"cfg", "model", "local_rank", "rank", "train_loader", "optimizer",
      "scheduler", "profiler", "checkpointer", "start_step", "tokens_seen">>

\* a call with positional arguments only, of a function without defaults
\* or *args, binds exactly when the counts agree; else it raises TypeError
CallBinds(args, params) == Len(args) = Len(params)

MainInit ==
    /\ cfg \in MainCfgs
    /\ TrainIdle
    /\ SearchIdle
    /\ main_pc = [p \in Workers |-> "start"]
    /\ main_new_cfg = [p \in Workers |-> cfg]
    /\ main_start_step = [p \in Workers |-> 0]
    /\ main_err = [p \in Workers |-> "none"]

\* main() from its first line to the muP grid: configuration, seeds, setup()
MainSetup(p) ==
    /\ main_pc[p] = "start"
    /\ main_pc' = [main_pc EXCEPT ![p] = "baseline"]
    /\ UNCHANGED <<trainVars, searchVars, main_new_cfg, main_start_step,
                   main_err>>

\* "Get baseline": set_mups on the zero vector, then run() is entered
MainBaseline(p) ==
    /\ main_pc[p] = "baseline"
    /\ main_new_cfg' =
           [main_new_cfg EXCEPT ![p] = set_mups([k \in Params |-> 0], cfg)]
    /\ main_pc' = [main_pc EXCEPT ![p] = "run"]
    /\ UNCHANGED <<trainVars, searchVars, main_start_step, main_err>>

\* run() up to the checkpoint load: start_step is the loaded one when
\* resuming and 0 otherwise
RunLoad(p) ==
    /\ main_pc[p] = "run"
    /\ \E is_resuming \in BOOLEAN, loaded \in StartSteps :
           main_start_step' =
               [main_start_step EXCEPT ![p] = IF is_resuming THEN loaded ELSE 0]
    /\ main_pc' = [main_pc EXCEPT ![p] = "call_train"]
    /\ UNCHANGED <<trainVars, searchVars, main_new_cfg, main_err>>

\* run()'s "return train(...).item()": the call binds its arguments or
\* raises TypeError, which neither run() nor main() catches
RunTrain(p) ==
    /\ main_pc[p] = "call_train"
    /\ IF CallBinds(RunTrainArgs, TrainParams)
       THEN /\ main_pc' = [main_pc EXCEPT ![p] = "in_train"]
            /\ main_err' = main_err
       ELSE /\ main_pc' = [main_pc EXCEPT ![p] = "raised"]
            /\ main_err' = [main_err EXCEPT ![p] = "TypeError"]
    /\ UNCHANGED <<trainVars, searchVars, main_new_cfg, main_start_step>>

\* the statements of main() after the baseline call follow a call that
\* never returns; they are the actions of SpecSearch
MainNext ==
    \/ \E p \in Workers : MainSetup(p)
    \/ \E p \in Workers : MainBaseline(p)
    \/ \E p \in Workers : RunLoad(p)
    \/ \E p \in Workers : RunTrain(p)

SpecMain == MainInit /\ [][MainNext]_vars

(***************************************************************************)
(* Properties of train(), checked under SpecTrain                          *)
(***************************************************************************)
\* the worker has left the loop
OutOfLoop(w) == pc[w] \in {"after_loop", "returned", "raised"}

\* the loop was ended by the divergence guard and train() has returned
GuardReturned(w) == pc[w] = "returned" /\ exit_cause[w] = "guard"

\* the local step count ddp_stats[2], a whole number
StepCount(w) == ddp_stats[w][3].n

\* the number of batches the worker's train_loader yields in all
LoaderLen(w) ==
    train_loader[w]
    + (IF "batch_idx" \in bound[w] THEN batch_idx[w] - start_step ELSE 0)

\* C3 as stated: whenever the divergence guard ends the trial, train()
\* returns the sentinel 100, for a not-a-number mean loss and for a finite
\* mean loss above 6.0 alike.
C3_GuardReturnsSentinel ==
    \A w \in Workers :
        GuardReturned(w) => Eq(ret[w].val, Num(Sentinel, 1))

\* C3 as amended: when the divergence guard ends the trial, train() returns
\* the sentinel 100 if the reduced mean loss is not-a-number, and the
\* finite mean loss itself (a number above 6.0) otherwise.
C3_GuardReturn ==
    \A w \in Workers :
        GuardReturned(w) =>
            IF train_loss[w].val.nan
            THEN ret[w] = PyInt(Sentinel)
            ELSE /\ ret[w].ty = "float"
                 /\ Eq(ret[w].val, train_loss[w].val)
                 /\ Gt(ret[w].val, LossThreshold)

\* C3 witness: the guard ended a trial on a finite mean loss and train()
\* returned.
C3_Witness ==
    \E w \in Workers : GuardReturned(w) /\ ~train_loss[w].val.nan

\* C4: every execution of train() returns normally a number that is not
\* not-a-number, a mean loss computed at a reporting boundary or the
\* sentinel; it never raises, also when no reporting boundary is reached.
C4_TrainReturnsNumber ==
    \A w \in Workers :
        /\ pc[w] # "raised"
        /\ pc[w] = "returned" =>
               /\ ~ret[w].val.nan
               /\ n_all_reduce[w] >= 1

\* C5 as stated: no worker is outside the loop while another is blocked in
\* all_reduce or has issued more all_reduce calls, and workers that have
\* left the loop left it at the same step index with the same number of
\* all_reduce calls.
C5_Lockstep ==
    \A w1, w2 \in Workers :
        OutOfLoop(w1) =>
            /\ pc[w2] # "all_reduce"
            /\ n_all_reduce[w2] <= n_all_reduce[w1]
            /\ OutOfLoop(w2) =>
                   /\ n_steps[w1] = n_steps[w2]
                   /\ n_all_reduce[w1] = n_all_reduce[w2]

\* C5 as amended: the same, provided every worker's data iterator yields
\* the same number of batches; then the workers also leave the loop with
\* the same batch_idx.
C5_LockstepEqualLoaders ==
    (\A w1, w2 \in Workers : LoaderLen(w1) = LoaderLen(w2)) =>
        \A w1, w2 \in Workers :
            OutOfLoop(w1) =>
                /\ pc[w2] # "all_reduce"
                /\ n_all_reduce[w2] <= n_all_reduce[w1]
                /\ OutOfLoop(w2) =>
                       /\ n_steps[w1] = n_steps[w2]
                       /\ n_all_reduce[w1] = n_all_reduce[w2]
                       /\ bound[w1] = bound[w2]
                       /\ batch_idx[w1] = batch_idx[w2]

\* C5 witness: equal loaders, and every worker has left the loop on the
\* divergence guard after at least two all_reduce calls.
C5_Witness ==
    /\ \A w1, w2 \in Workers : LoaderLen(w1) = LoaderLen(w2)
    /\ \A w \in Workers :
           /\ OutOfLoop(w)
           /\ exit_cause[w] = "guard"
           /\ n_all_reduce[w] >= 2

\* C7: the divergence guard ends the loop only at a reporting boundary with
\* step index > 999 whose reduced mean loss is not-a-number or > 6.0; at
\* every such boundary it does end the loop (so it fires at the first one);
\* and once it has fired the worker executes no further optimizer step and
\* issues no further all_reduce.
C7_GuardExact ==
    /\ [](\A w \in Workers :
              exit_cause[w] = "guard" =>
                  /\ batch_idx[w] > 999
                  /\ batch_idx[w] % cfg.report_interval = 0
                  /\ train_loss[w].ty = "tensor"
                  /\ train_loss[w].val.nan \/ Gt(train_loss[w].val, 6))
    /\ [][\A w \in Workers :
              (pc[w] = "report" /\ pc'[w] # "report") =>
                  (pc'[w] = "after_loop" <=>
                      /\ batch_idx[w] > 999
                      /\ train_loss'[w].val.nan \/ Gt(train_loss'[w].val, 6))]_vars
    /\ [][\A w \in Workers :
              exit_cause[w] = "guard" =>
                  /\ n_steps'[w] = n_steps[w]
                  /\ n_all_reduce'[w] = n_all_reduce[w]
                  /\ batch_idx'[w] = batch_idx[w]]_vars

\* C7 witness: the guard fired at step 1000, the first boundary beyond 999,
\* after boundaries at steps <= 999 that it let pass, and train() returned.
C7_Witness ==
    \E w \in Workers :
        /\ GuardReturned(w)
        /\ batch_idx[w] = 1000
        /\ n_all_reduce[w] >= 2

\* C9: at every reporting boundary the reduced step count equals world_size
\* times the local step count each worker contributed, and the mean loss is
\* the reduced loss sum divided by the reduced count.
C9_ReducedCount ==
    /\ [][\A w \in Workers :
              (pc[w] = "all_reduce" /\ pc'[w] = "report") =>
                  /\ \A v \in Workers : StepCount(v) = StepCount(w)
                  /\ ddp_stats'[w][3] = Num(WorldSize * StepCount(w), 1)]_vars
    /\ [][\A w \in Workers :
              (pc[w] = "report" /\ pc'[w] # "report") =>
                  /\ train_loss'[w].ty = "tensor"
                  /\ train_loss'[w].val.nan =
                         (ddp_stats[w][1].nan \/ StepCount(w) = 0)
                  /\ ~ddp_stats[w][1].nan =>
                         train_loss'[w].val.n * StepCount(w)
                             = ddp_stats[w][1].n * train_loss'[w].val.d]_vars

\* C9 witness: a reduction has completed over windows of two local steps.
C9_Witness ==
    \E w \in Workers :
        /\ pc[w] = "report"
        /\ StepCount(w) = 2 * WorldSize

\* the step budget and the data left allow another reporting boundary
MoreReductions(w) ==
    /\ batch_idx[w] + cfg.report_interval <= cfg.num_steps
    /\ train_loader[w] >= cfg.report_interval

\* C10 as stated: immediately before each reduction the local step count
\* equals report_interval, except possibly in the final window of the run
\* (the last one the run can reduce), where it may be fewer.
C10_FullWindows ==
    \A w \in Workers :
        pc[w] = "all_reduce" =>
            \/ StepCount(w) = cfg.report_interval
            \/ /\ StepCount(w) < cfg.report_interval
               /\ ~MoreReductions(w)

\* C10 as amended: the local step count never decreases inside a reporting
\* window, and immediately before each reduction it equals report_interval,
\* except before the first reduction of a run, where it equals
\* report_interval - (start_step mod report_interval); a final partial
\* window is never reduced.
C10_WindowCounts ==
    /\ [](\A w \in Workers :
              pc[w] = "all_reduce" =>
                  StepCount(w) =
                      IF n_all_reduce[w] = 1
                      THEN cfg.report_interval
                               - (start_step % cfg.report_interval)
                      ELSE cfg.report_interval)
    /\ [][\A w \in Workers :
              pc[w] # "report" => ddp_stats'[w][3].n >= ddp_stats[w][3].n]_vars

\* C10 witness: a resumed run is about to reduce a first window shorter
\* than report_interval, with another reporting boundary still to come.
C10_Witness ==
    \E w \in Workers :
        /\ pc[w] = "all_reduce"
        /\ n_all_reduce[w] = 1
        /\ StepCount(w) < cfg.report_interval
        /\ MoreReductions(w)

(***************************************************************************)
(* Properties of the search, checked under SpecSearch                      *)
(***************************************************************************)
\* the baseline trial has been run
Searching == spc \in {"probe", "final", "done"}

\* C1: after every trial the tracked best loss equals the loss measured for
\* the exponent vector held as best (the baseline loss for the zero
\* vector): an adoption updates the vector and the best loss together.
C1_BestLossTracksBest ==
    Searching => Eq(best_loss, held_loss)

\* C2: the loss of the vector held as best is non-increasing over the
\* search: at the end of every round it is <= what it was at the end of the
\* round before (after the baseline, for round 0), hence <= what it was
\* after any earlier round, and it is never greater than the baseline loss.
C2_BestLossNonIncreasing ==
    [][/\ i' = i + 1 => ~Lt(round_loss, held_loss')
       /\ spc = "probe" => ~Lt(best_loss, held_loss')]_vars

\* C6: a candidate trial that hands back the divergence sentinel 100 is
\* never adopted: it leaves the best vector and the best loss unchanged,
\* whatever the baseline loss and the earlier trial results.
C6_SentinelNeverAdopted ==
    [][(spc = "probe" /\ n_trials' = n_trials + 1
            /\ Eq(new_loss', Num(Sentinel, 1))) =>
           /\ mup_scale_vals' = mup_scale_vals
           /\ best_loss' = best_loss
           /\ held_loss' = held_loss]_vars

(***************************************************************************)
(* Properties of main(), checked under SpecMain                            *)
(***************************************************************************)
\* C8: the search runs to completion: no process ends main() in an error,
\* every trial hands back a result, and the final report, barrier and
\* teardown are reached.
C8_SearchCompletes ==
    \A p \in Workers :
        /\ main_pc[p] # "raised"
        /\ main_err[p] = "none"

(***************************************************************************)
(* Properties of set_mups and of the candidates, checked under SpecSearch  *)
(***************************************************************************)
\* C11: the base configuration is never mutated by the search, and the
\* configuration of every trial has each of the six fields equal to the
\* base field times 2^(v * explore_ratio), v being the trial's exponent for
\* that field, computed from the original base and not from an earlier
\* derived configuration; every other field is the base's.
C11_DerivedFromBase ==
    Searching =>
        /\ cfg \in MainCfgs
        /\ cfg.mup = BaseMups
        /\ new_cfg = [cfg EXCEPT !.mup =
               [k \in Params |->
                   <<BaseMups[k][1], candidate[k] * cfg.mup_explore_range>>]]

\* a trial whose vector differs from the best vector, after an adoption
C11_Witness ==
    /\ Searching
    /\ n_adopted >= 1
    /\ candidate # mup_scale_vals
    /\ \E k \in Params : candidate[k] # 0 /\ mup_scale_vals[k] # 0
    /\ cfg.mup_explore_range = 4

\* C12: set_mups applied to the all-zero vector hands back exactly the base
\* values of all six fields, whatever the explore ratio, and the baseline,
\* the first trial, runs on that configuration.
C12_BaselineIsBase ==
    /\ spc = "baseline" <=> n_trials = 0
    /\ n_trials = 1 =>
           /\ candidate = [k \in Params |-> 0]
           /\ \A k \in Params : new_cfg.mup[k] = cfg.mup[k]
           /\ new_cfg = cfg

\* the baseline trial has run, under the wider explore ratio
C12_Witness ==
    /\ spc \in {"probe", "final"}
    /\ n_trials = 1
    /\ cfg.mup_explore_range = 4

\* C13: a candidate is adopted only on strict improvement: an adopted
\* candidate measured a loss strictly below the loss of the vector held as
\* best when it was tried, so that a candidate whose loss equals that loss is
\* never adopted, and a second probe direction replaces an adopted first one
\* only with a strictly lower loss.
C13_StrictImprovementOnly ==
    [][(spc = "probe" /\ mup_scale_vals' # mup_scale_vals) =>
           Lt(new_loss', held_loss)]_vars

\* C14: in round r, for parameter j in the declared order, each candidate
\* equals the best vector held when it is built in every coordinate but j,
\* and its coordinate j is c_j - 2^-(r+1) for the first probe and
\* c_j + 2^-(r+1) for the second, c_j being coordinate j of the best vector
\* when the probing of j began; what was adopted earlier in the round is
\* thus present in the later candidates.
C14_CandidateShape ==
    [][(spc = "probe" /\ n_trials' = n_trials + 1) =>
           LET step == Unit \div Pow2(i + 1)
           IN  /\ \A k \in Params \ {j} : candidate'[k] = mup_scale_vals[k]
               /\ sign < 0 => candidate'[j] = mup_scale_vals[j] - step
               /\ sign > 0 => /\ candidate'[j] = candidate[j] + 2 * step
                              /\ \A k \in Params \ {j} :
                                     candidate'[k] = candidate[k]
               /\ j' \in {j, j + 1, 1}
               /\ (j' = 1 /\ j # 1) => (j = Len(mup_params) /\ i' = i + 1)]_vars

\* a second-round candidate for a later parameter that carries an adoption
\* made for the first parameter in the same round
C14_Witness ==
    /\ Searching
    /\ i = 1
    /\ j > 1
    /\ candidate[1] \in {3 * (Unit \div 4), 0 - 3 * (Unit \div 4),
                         Unit \div 4, 0 - (Unit \div 4)}
    /\ candidate[j] # 0
    /\ mup_scale_vals[j] = 0

(***************************************************************************)
(* Properties of main() and run() in every process, checked under SpecMain *)
(***************************************************************************)
\* C15: the processes replay the same search: any two processes that have
\* built a trial configuration have built the same one, and no process
\* leaves main() before the final barrier, so that they all launch the same
\* sequence of trials and meet in every collective call.
C15_SameSearchEverywhere ==
    \A p, q \in Workers :
        /\ (main_pc[p] \notin {"start", "baseline"}
                /\ main_pc[q] \notin {"start", "baseline"}) =>
               main_new_cfg[p] = main_new_cfg[q]
        /\ main_pc[p] \in {"start", "baseline", "run", "call_train",
                           "in_train"}

\* C18: the call of train() by run() matches the parameters train()
\* declares: the call is entered in every process and for every trial, and
\* no exception ends run() there.
C18_CallMatches ==
    [][\A p \in Workers :
           (main_pc[p] = "call_train" /\ main_pc'[p] # "call_train") =>
               /\ main_pc'[p] = "in_train"
               /\ main_err'[p] = "none"]_vars

(***************************************************************************)
(* Properties of train()'s step numbering, checked under SpecTrain         *)
(***************************************************************************)
\* C16: the k-th optimizer step executed by train() has index
\* start_step + k (the first one start_step + 1), no step has an index
\* above num_steps, a loop that ends without the divergence guard on a data
\* iterator with enough batches has executed exactly
\* max(0, num_steps - start_step) steps, and the reporting boundaries are
\* the executed steps whose index is a multiple of report_interval in this
\* global numbering.
C16_StepNumbering ==
    \A w \in Workers :
        LET budget == IF cfg.num_steps > start_step
                      THEN cfg.num_steps - start_step ELSE 0
            last == start_step + n_steps[w]
        IN  /\ n_steps[w] >= 1 =>
                   /\ "batch_idx" \in bound[w]
                   /\ batch_idx[w] =
                          IF exit_cause[w] = "budget" THEN last + 1 ELSE last
                   /\ last <= cfg.num_steps
            /\ n_steps[w] <= budget
            /\ (OutOfLoop(w) /\ exit_cause[w] # "guard"
                    /\ LoaderLen(w) >= budget) => n_steps[w] = budget
            /\ pc[w] \in {"all_reduce", "report"} <=>
                   (/\ n_steps[w] >= 1
                    /\ last % cfg.report_interval = 0
                    /\ n_all_reduce[w] =
                           (last \div cfg.report_interval)
                               - (start_step \div cfg.report_interval)
                    /\ ddp_stats[w][3].n > 0)

\* a resumed run has used up its step budget of MaxRun steps, past a
\* reporting boundary
C16_Witness ==
    \E w \in Workers :
        /\ start_step = 997
        /\ exit_cause[w] = "budget"
        /\ n_steps[w] = cfg.num_steps - start_step
        /\ n_steps[w] = MaxRun
        /\ n_all_reduce[w] >= 1

\* C17: ddp_stats is all-zero when the loop starts and again right after
\* every reduction has been reported, whether or not the divergence guard
\* then ends the loop, and before the next step accumulates; between
\* boundaries it holds exactly the steps executed since the last boundary
\* (not-a-number sums of an earlier window included: they do not survive),
\* so every reduction sums, over the workers, only the steps of its window.
C17_StatsZeroed ==
    /\ [](\A w \in Workers :
              LET since == IF n_steps[w] = 0 THEN 0
                           ELSE IF batch_idx[w] % cfg.report_interval
                                    < n_steps[w]
                           THEN batch_idx[w] % cfg.report_interval
                           ELSE n_steps[w]
                  zero == [n |-> 0, d |-> 1, nan |-> FALSE]
              IN  /\ pc[w] = "loop" =>
                         /\ StepCount(w) = since
                         /\ since = 0 => ddp_stats[w] = <<zero, zero, zero>>
                  /\ exit_cause[w] = "guard" =>
                         ddp_stats[w] = <<zero, zero, zero>>
                  /\ pc[w] = "report" =>
                         StepCount(w) =
                             WorldSize *
                                 (IF n_all_reduce[w] = 1 THEN n_steps[w]
                                  ELSE cfg.report_interval))
    /\ [][\A w \in Workers :
              (pc[w] = "report" /\ pc'[w] # "report") =>
                  /\ ddp_stats'[w][1] = [n |-> 0, d |-> 1, nan |-> FALSE]
                  /\ ddp_stats'[w][2] = [n |-> 0, d |-> 1, nan |-> FALSE]
                  /\ ddp_stats'[w][3] = [n |-> 0, d |-> 1, nan |-> FALSE]]_vars

\* a window whose sums were not-a-number has been reduced and reported, the
\* loop went on, and the next window has accumulated a finite step
C17_Witness ==
    \E w \in Workers :
        /\ pc[w] = "loop"
        /\ train_loss[w].ty = "tensor"
        /\ train_loss[w].val.nan
        /\ StepCount(w) = 1
        /\ ~ddp_stats[w][1].nan
        /\ n_all_reduce[w] >= 1

(***************************************************************************)
(* Bounds of the searched exponents, checked under SpecSearch              *)
(***************************************************************************)
\* C19: while round r is probed and once it is complete, every coordinate
\* of the best vector and of every candidate built so far is an integer
\* multiple of 2^-(r+1) of magnitude at most 1 - 2^-(r+1), so that every
\* field of a trial configuration lies strictly between
\* base * 2^(-explore_ratio) and base * 2^(+explore_ratio).
C19_ExponentsBounded ==
    Searching =>
        LET r == IF spc = "probe" THEN i ELSE i - 1
            grain == IF r < 0 THEN Unit ELSE Unit \div Pow2(r + 1)
        IN  \A k \in Params :
                /\ mup_scale_vals[k] % grain = 0
                /\ candidate[k] % grain = 0
                /\ mup_scale_vals[k] <= Unit - grain
                /\ 0 - mup_scale_vals[k] <= Unit - grain
                /\ candidate[k] <= Unit - grain
                /\ 0 - candidate[k] <= Unit - grain
                /\ new_cfg.mup[k][1] = cfg.mup[k][1]
                /\ new_cfg.mup[k][2] < cfg.mup_explore_range * Unit
                /\ new_cfg.mup[k][2] > 0 - cfg.mup_explore_range * Unit

\* the last round has adopted a coordinate at the largest magnitude it
\* allows, two adoptions in the same direction
C19_Witness ==
    /\ spc = "probe"
    /\ i = cfg.mup_search_steps - 1
    /\ i >= 1
    /\ \E k \in Params :
           \/ mup_scale_vals[k] = Unit - (Unit \div Pow2(i + 1))
           \/ mup_scale_vals[k] = (Unit \div Pow2(i + 1)) - Unit

(***************************************************************************)
(* Properties of train()'s return value, checked under SpecTrain           *)
(***************************************************************************)
\* C20: the loss train() returns is the mean loss of the last reporting
\* boundary reached (the sentinel standing for a not-a-number mean): the
\* steps executed after that boundary stay unreduced in ddp_stats, change
\* neither train_loss nor the number of all_reduce calls, and that number
\* equals the number of multiples of report_interval among the executed
\* step indices.
C20_LastBoundaryDecides ==
    /\ [](\A w \in Workers :
              LET executed == (start_step + 1) .. (start_step + n_steps[w])
                  multiples ==
                      {x \in executed : x % cfg.report_interval = 0}
                  after == {x \in executed : \A m \in multiples : x > m}
              IN  /\ n_all_reduce[w] = Cardinality(multiples)
                  /\ pc[w] = "returned" =>
                         /\ multiples # {}
                         /\ train_loss[w].ty = "tensor"
                         /\ IF train_loss[w].val.nan
                            THEN ret[w].ty = "int" /\ ret[w].val = Num(100, 1)
                            ELSE ret[w].ty = "float"
                                     /\ ret[w].val = train_loss[w].val
                  /\ (OutOfLoop(w) /\ multiples # {}) =>
                         StepCount(w) = Cardinality(after))
    /\ [][\A w \in Workers :
              /\ pc[w] # "report" => train_loss'[w] = train_loss[w]
              /\ n_all_reduce'[w] # n_all_reduce[w] =>
                     /\ n_steps'[w] = n_steps[w] + 1
                     /\ batch_idx'[w] % cfg.report_interval = 0]_vars

\* train() has returned the mean loss 1 of its last boundary, with a later
\* step of loss 8 left unreduced in ddp_stats
C20_Witness ==
    \E w \in Workers :
        /\ pc[w] = "returned"
        /\ exit_cause[w] = "budget"
        /\ Eq(ret[w].val, Num(1, 1))
        /\ ddp_stats[w][1] = Num(8, 1)
        /\ StepCount(w) = 1

=============================================================================
